---- MODULE Spec2Model ----
(***************************************************************************)
(* A model of rust-socketio's Engine.IO server core                        *)
(* (engineio/src/asynchronous/server/{server,accept}.rs) and of the        *)
(* Socket.IO client socket (socketio/src/socket.rs).                       *)
(*                                                                         *)
(* SpecServer / FairServer : the acceptor, the session registry, the       *)
(*                           heartbeat driver and the close paths.         *)
(* SpecApi                 : the same with an application that calls       *)
(*                           Server::emit and Server::close_socket.        *)
(* SpecError               : the server with peers whose frames the codec  *)
(*                           rejects.                                      *)
(* SpecAccept              : accept_connection, the request classifier and *)
(*                           the polling acceptor.                         *)
(* SpecSocket              : Socket::connect/disconnect/poll.              *)
(* SpecSend                : Socket::connect/disconnect/send/poll.         *)
(* SpecBuild               : Socket::build_packet_for_payloads.            *)
(* SpecLoop                : a packet built, sent and polled at the other  *)
(*                           end.                                          *)
(* SpecLock                : Server::emit and Server::close_socket as      *)
(*                           callers of the registry's RwLock.             *)
(***************************************************************************)
EXTENDS Integers, Sequences, FiniteSets, TLC

\* ------------------------------------------------------------------ bounds
MaxSessions == 2    \* WebSocket connections the server accepts
MaxSeq      == 2    \* calls of SidGenerator::generate
MaxPongs    == 1    \* Pong frames the peers send
MaxCloses   == 1    \* Close frames the peers send
MaxErrors   == 1    \* frames of the peers that the codec rejects
EncRange    == 120  \* counter values the Sid encoding is compared over

\* ------------------------------------------------- program constants
ping_interval == 25000
ping_timeout  == 20000

Sessions == 1..MaxSessions

\* Option<T>: None, or Some(x) whose value is Some(x)[1].
None == <<>>
Some(x) == <<x>>

\* ------------------------------------------------------- SidGenerator
\* format!("{}", seq): the decimal digits of seq as ASCII bytes.
RECURSIVE format(_)
format(n) ==
    IF n < 10 THEN <<48 + n>> ELSE format(n \div 10) \o <<48 + (n % 10)>>

\* base64::encode: three bytes become four sextets; 64 stands for the pad '='.
RECURSIVE base64_encode(_)
base64_encode(b) ==
    IF Len(b) = 0 THEN <<>>
    ELSE IF Len(b) = 1 THEN
        <<b[1] \div 4, (b[1] % 4) * 16, 64, 64>>
    ELSE IF Len(b) = 2 THEN
        <<b[1] \div 4, (b[1] % 4) * 16 + (b[2] \div 16), (b[2] % 16) * 4, 64>>
    ELSE <<b[1] \div 4,
           (b[1] % 4) * 16 + (b[2] \div 16),
           (b[2] % 16) * 4 + (b[3] \div 64),
           b[3] % 64>> \o base64_encode(SubSeq(b, 4, Len(b)))

\* seq.fetch_add(1, SeqCst): the value the counter holds afterwards.
fetch_add_stuck(n) == n
fetch_add(n) == n + 1

\* SidGenerator::generate for the counter value it read.
generate(n) == base64_encode(format(n))

\* No Sid: Option::None, and the sid field of a connection not yet accepted.
NoSid == <<>>
\* A Sid the generator never produces, sent by a client in the sid= query.
ForeignSid == <<27, 27>>
\* The Sids a request can carry or the server can issue.
AllSids == {generate(n) : n \in 0..(MaxSeq - 1)} \cup {ForeignSid}

VARIABLES
    \* ---- Engine.IO server
    seq,        \* SidGenerator.seq
    generated,  \* history: the Sids generate returned, in call order
    acc,        \* per connection: position of its acceptor task
    sid,        \* per connection: the Sid its session is stored under
    connected,  \* per session: Socket.connected
    pollt,      \* per session: position of the poll_packet task
    hb,         \* per session: position of the task start_ping_pong spawned
    hbFirst,    \* per heartbeat task: interval has not ticked yet
    hbsock,     \* per heartbeat task: the socket close_socket took out
    elapsed,    \* per session: last_pong.elapsed() in ms
    pongs,      \* per session: Pong frames its peer has sent
    wire,       \* per session: the kinds of frame sent to the peer, in the
                \* order in which each kind was first sent
    closes,     \* per session: invocations of the user on_close callback
    sockets,    \* Inner.sockets: Sid -> session (0: no entry)
    removed,    \* history: sessions a remove took out of the registry
    replaced,   \* history: sessions an insert under their Sid pushed out
    ext         \* the application's task calling the server's API: where it
                \* is, the socket close_socket took out, what the call returned

serverVars == <<seq, generated, acc, sid, connected, pollt, hb, hbFirst, hbsock,
                elapsed, pongs, wire, closes, sockets, removed, replaced, ext>>

VARIABLES
    \* ---- the WebSocket connections as the acceptor saw them
    requested,  \* per connection: the sid of its request, NoSid without one
    opened      \* per connection: the HandshakePacket of the Open frame
                \* handshake() sent on it, None when it sent none

wsVars == <<requested, opened>>

VARIABLES
    errors      \* per session: invocations of the user on_error callback

callbackVars == <<errors>>


\* The application's task between two API calls.
Idle == [pc |-> "idle", sock |-> 0, res |-> "none", disc |-> FALSE,
         framed |-> FALSE]

InitServer ==
    /\ seq = 0
    /\ generated = <<>>
    /\ acc = [s \in Sessions |-> "idle"]
    /\ sid = [s \in Sessions |-> NoSid]
    /\ connected = [s \in Sessions |-> FALSE]
    /\ pollt = [s \in Sessions |-> "none"]
    /\ hb = [s \in Sessions |-> "none"]
    /\ hbFirst = [s \in Sessions |-> TRUE]
    /\ hbsock = [s \in Sessions |-> 0]
    /\ elapsed = [s \in Sessions |-> 0]
    /\ pongs = [s \in Sessions |-> 0]
    /\ wire = [s \in Sessions |-> <<>>]
    /\ closes = [s \in Sessions |-> 0]
    /\ sockets = [x \in AllSids |-> 0]
    /\ removed = {}
    /\ replaced = {}
    /\ ext = Idle
    /\ requested = [s \in Sessions |-> NoSid]
    /\ opened = [s \in Sessions |-> None]
    /\ errors = [s \in Sessions |-> 0]

\* ------------------------------------------------------------ helpers
\* sockets.get(sid): the session stored under x, 0 when there is none.
Lookup(x) == sockets[x]

\* Pong frames all peers have sent.
RECURSIVE SumTo(_, _)
SumTo(f, n) == IF n = 0 THEN 0 ELSE f[n] + SumTo(f, n - 1)
TotalPongs == SumTo(pongs, MaxSessions)

\* Close frames all peers have sent: each ends the poll_packet task it reached.
TotalCloses == Cardinality({s \in Sessions : pollt[s] \in {"drop", "done"}})

\* Frames of all peers that the codec has rejected.
TotalErrors == Cardinality({s \in Sessions : pollt[s] = "failed"})

\* Whether a frame of kind f is among the frames sent, w.
Sent(w, f) == \E i \in 1..Len(w) : w[i] = f

\* The frames sent after one more frame of kind f.
Send(w, f) == IF Sent(w, f) THEN w ELSE Append(w, f)

\* Socket::is_connected of the Engine.IO session.
Socket_is_connected(s) == connected[s]

\* Socket::emit of the Engine.IO session: fails unless the session is connected.
Socket_emit_result(s) ==
    IF connected[s] THEN "Ok" ELSE "IllegalActionBeforeOpen"

\* Whether a close trigger (Socket::disconnect, an incoming Close frame) still
\* has a session to terminate: triggers on a terminated session coalesce.
Socket_terminates_always(s) == TRUE
Socket_terminates(s) == connected[s]

\* Server::is_connected(sid)
is_connected(x) == Lookup(x) # 0 /\ Socket_is_connected(Lookup(x))

\* Server::emit(sid, packet): what it returns.
emit_result(x) ==
    IF Lookup(x) # 0 THEN Socket_emit_result(Lookup(x)) ELSE "Ok"

\* Server::emit(sid, packet): whether a frame goes to the transport.
emit_frames(x) == Lookup(x) # 0 /\ Socket_emit_result(Lookup(x)) = "Ok"

\* The wires after Server::emit(sid, packet) of a frame f.
emit_wire(x, f) ==
    IF emit_frames(x)
    THEN [wire EXCEPT ![Lookup(x)] = Send(@, f)]
    ELSE wire

\* start_ping_pong: Duration::from_millis(ping_timeout + ping_interval)
timeout == ping_timeout + ping_interval

\* Server::last_pong(sid) is Some(instant) with instant.elapsed() < timeout
last_pong_fresh(x) == Lookup(x) # 0 /\ elapsed[Lookup(x)] < timeout

\* sockets.remove(sid)
Remove(x) == [sockets EXCEPT ![x] = 0]
Removed(x) == IF Lookup(x) # 0 THEN removed \cup {Lookup(x)} ELSE removed

\* The Sid was the Sid of a session that is now disconnected, and no connected
\* session is stored under it.
DisconnectedSid(x) ==
    /\ \E s \in Sessions : sid[s] = x /\ acc[s] = "done" /\ ~connected[s]
    /\ ~is_connected(x)

\* ----------------------------------------------------------- acceptor
\* What the sid= query of a WebSocket request can be: absent, a Sid the server
\* has issued, or one the client made up.
Requests == {NoSid, ForeignSid} \cup {generated[i] : i \in 1..Len(generated)}

\* The connection the next accepted byte-stream gets.
NextConn(s) == acc[s] = "idle" /\ \A r \in Sessions : r < s => acc[r] # "idle"

\* PollingAcceptor::accept for PollingOpen: handshake_packet(.., None) draws a
\* Sid from the generator; no session is stored.
PollingAcceptor_accept ==
    /\ seq < MaxSeq
    /\ seq' = fetch_add(seq)
    /\ generated' = Append(generated, generate(seq))
    /\ UNCHANGED <<acc, sid, connected, pollt, hb, hbFirst, hbsock, elapsed,
                   pongs, wire, closes, sockets, removed, replaced, ext>>

\* Server::handshake_packet with the Sid already drawn.
handshake_packet(upgrades, s) ==
    [sid |-> s, ping_timeout |-> ping_timeout,
     ping_interval |-> ping_interval, upgrades |-> upgrades]

\* The variant whose handshake() draws the Sid and sends nothing.
WebsocketAcceptor_accept_silent(s, req) ==
    /\ NextConn(s)
    /\ IF req = NoSid
       THEN /\ seq < MaxSeq
            /\ seq' = fetch_add(seq)
            /\ generated' = Append(generated, generate(seq))
            /\ sid' = [sid EXCEPT ![s] = generate(seq)]
            /\ UNCHANGED <<wire, opened>>
       ELSE /\ sid' = [sid EXCEPT ![s] = req]
            /\ UNCHANGED <<seq, generated, wire, opened>>
    /\ requested' = [requested EXCEPT ![s] = req]
    /\ acc' = [acc EXCEPT ![s] = "store"]
    /\ UNCHANGED <<connected, pollt, hb, hbFirst, hbsock, elapsed, pongs,
                   closes, sockets, removed, replaced, ext>>

\* The variant that calls handshake() whether or not the request has a sid.
WebsocketAcceptor_accept_handshake(s, req) ==
    /\ NextConn(s)
    /\ seq < MaxSeq
    /\ seq' = fetch_add(seq)
    /\ generated' = Append(generated, generate(seq))
    /\ sid' = [sid EXCEPT ![s] = generate(seq)]
    /\ wire' = [wire EXCEPT ![s] = Send(@, "Open")]
    /\ opened' = [opened EXCEPT
                     ![s] = Some(handshake_packet(<<>>, generate(seq)))]
    /\ requested' = [requested EXCEPT ![s] = req]
    /\ acc' = [acc EXCEPT ![s] = "store"]
    /\ UNCHANGED <<connected, pollt, hb, hbFirst, hbsock, elapsed, pongs,
                   closes, sockets, removed, replaced, ext>>

\* accept_connection for WsUpgrade(req), then WebsocketAcceptor::accept up to
\* the call of store_stream: accept_async, and for req = None handshake(),
\* which draws the Sid and sends the Open frame.  (When accept_async or the
\* send fails the `?` returns before anything of the server has changed.)
WebsocketAcceptor_accept(s, req) ==
    /\ NextConn(s)
    /\ IF req = NoSid
       THEN /\ seq < MaxSeq
            /\ seq' = fetch_add(seq)
            /\ generated' = Append(generated, generate(seq))
            /\ sid' = [sid EXCEPT ![s] = generate(seq)]
            /\ wire' = [wire EXCEPT ![s] = Send(@, "Open")]
            /\ opened' = [opened EXCEPT
                             ![s] = Some(handshake_packet(<<>>, generate(seq)))]
       ELSE /\ sid' = [sid EXCEPT ![s] = req]
            /\ UNCHANGED <<seq, generated, wire, opened>>
    /\ requested' = [requested EXCEPT ![s] = req]
    /\ acc' = [acc EXCEPT ![s] = "store"]
    /\ UNCHANGED <<connected, pollt, hb, hbFirst, hbsock, elapsed, pongs,
                   closes, sockets, removed, replaced, ext>>

\* store_stream up to the write lock: Socket::new, connect(), poll_packet(),
\* start_ping_pong().
store_stream_connect(s) ==
    /\ acc[s] = "store"
    /\ connected' = [connected EXCEPT ![s] = TRUE]
    /\ elapsed' = [elapsed EXCEPT ![s] = 0]
    /\ pollt' = [pollt EXCEPT ![s] = "running"]
    /\ hb' = [hb EXCEPT ![s] = "check"]
    /\ acc' = [acc EXCEPT ![s] = "insert"]
    /\ UNCHANGED <<seq, generated, sid, hbFirst, hbsock, pongs, wire, closes,
                   sockets, removed, replaced, ext>>

\* store_stream: sockets.write().await; sockets.insert(sid, socket); Ok(())
store_stream_insert(s) ==
    /\ acc[s] = "insert"
    /\ sockets' = [sockets EXCEPT ![sid[s]] = s]
    /\ replaced' = IF Lookup(sid[s]) # 0
                   THEN replaced \cup {Lookup(sid[s])} ELSE replaced
    /\ acc' = [acc EXCEPT ![s] = "done"]
    /\ UNCHANGED <<seq, generated, sid, connected, pollt, hb, hbFirst, hbsock,
                   elapsed, pongs, wire, closes, removed, ext>>

\* ---------------------------------------------------------- heartbeat
\* while let Ok(true) = server.is_connected(&sid).await
hb_is_connected(s) ==
    /\ hb[s] = "check"
    /\ hb' = [hb EXCEPT ![s] = IF is_connected(sid[s]) THEN "emit" ELSE "close"]
    /\ UNCHANGED <<seq, generated, acc, sid, connected, pollt, hbFirst, hbsock,
                   elapsed, pongs, wire, closes, sockets, removed, replaced,
                   ext>>

\* server.emit(&sid, Ping).await.is_err() => break
hb_emit(s) ==
    /\ hb[s] = "emit"
    /\ wire' = emit_wire(sid[s], "Ping")
    /\ hb' = [hb EXCEPT ![s] =
                 IF emit_result(sid[s]) = "Ok" THEN "pong" ELSE "close"]
    /\ UNCHANGED <<seq, generated, acc, sid, connected, pollt, hbFirst, hbsock,
                   elapsed, pongs, closes, sockets, removed, replaced, ext>>

\* match server.last_pong(&sid).await, then interval.tick().await: the first
\* tick of a tokio interval completes at once, a later one waits.
hb_last_pong(s) ==
    /\ hb[s] = "pong"
    /\ hb' = [hb EXCEPT ![s] =
                 IF ~last_pong_fresh(sid[s]) THEN "close"
                 ELSE IF hbFirst[s] THEN "check" ELSE "tick"]
    /\ hbFirst' = [hbFirst EXCEPT ![s] = @ /\ ~last_pong_fresh(sid[s])]
    /\ UNCHANGED <<seq, generated, acc, sid, connected, pollt, hbsock, elapsed,
                   pongs, wire, closes, sockets, removed, replaced, ext>>

\* One ping_interval passes: the heartbeat tasks waiting in interval.tick()
\* resume, and every session's last pong is ping_interval older.
Tick ==
    /\ \E s \in Sessions : hb[s] = "tick"
    /\ hb' = [s \in Sessions |-> IF hb[s] = "tick" THEN "check" ELSE hb[s]]
    /\ elapsed' = [s \in Sessions |->
                      IF connected[s] /\ elapsed[s] < timeout
                      THEN elapsed[s] + ping_interval ELSE elapsed[s]]
    /\ UNCHANGED <<seq, generated, acc, sid, connected, pollt, hbFirst, hbsock,
                   pongs, wire, closes, sockets, removed, replaced, ext>>

\* server.close_socket(&sid): sockets.remove(sid) under the write lock.
hb_close_socket(s) ==
    /\ hb[s] = "close"
    /\ sockets' = Remove(sid[s])
    /\ removed' = Removed(sid[s])
    /\ hbsock' = [hbsock EXCEPT ![s] = Lookup(sid[s])]
    /\ hb' = [hb EXCEPT ![s] = IF Lookup(sid[s]) # 0 THEN "disc" ELSE "done"]
    /\ UNCHANGED <<seq, generated, acc, sid, connected, pollt, hbFirst, elapsed,
                   pongs, wire, closes, replaced, ext>>

\* close_socket: socket.disconnect().await, which sends Close and invokes the
\* on_close wrapper; the wrapper first calls the user's on_close.
hb_disconnect(s) ==
    /\ hb[s] = "disc"
    /\ IF Socket_terminates(hbsock[s])
       THEN /\ connected' = [connected EXCEPT ![hbsock[s]] = FALSE]
            /\ wire' = [wire EXCEPT ![hbsock[s]] = Send(@, "Close")]
            /\ closes' = [closes EXCEPT ![hbsock[s]] = @ + 1]
            /\ hb' = [hb EXCEPT ![s] = "drop"]
       ELSE /\ hb' = [hb EXCEPT ![s] = "done"]
            /\ UNCHANGED <<connected, wire, closes>>
    /\ UNCHANGED <<seq, generated, acc, sid, pollt, hbFirst, hbsock, elapsed,
                   pongs, sockets, removed, replaced, ext>>

\* the on_close wrapper: server.drop_socket(&sid).await
hb_drop_socket(s) ==
    /\ hb[s] = "drop"
    /\ sockets' = Remove(sid[hbsock[s]])
    /\ removed' = Removed(sid[hbsock[s]])
    /\ hb' = [hb EXCEPT ![s] = "done"]
    /\ UNCHANGED <<seq, generated, acc, sid, connected, pollt, hbFirst, hbsock,
                   elapsed, pongs, wire, closes, replaced, ext>>

\* -------------------------------------------------------- poll_packet
\* The peer answers a Ping: handle_incoming_packet(Pong) sets last_pong.
peer_pong(s) ==
    /\ pollt[s] = "running"
    /\ connected[s]
    /\ TotalPongs < MaxPongs
    /\ Sent(wire[s], "Ping")
    /\ pongs' = [pongs EXCEPT ![s] = @ + 1]
    /\ elapsed' = [elapsed EXCEPT ![s] = 0]
    /\ UNCHANGED <<seq, generated, acc, sid, connected, pollt, hb, hbFirst,
                   hbsock, wire, closes, sockets, removed, replaced, ext>>

\* The peer sends Close: handle_incoming_packet(Close) terminates the session
\* and invokes the on_close wrapper, which first calls the user's on_close.
peer_close(s) ==
    /\ pollt[s] = "running"
    /\ TotalCloses < MaxCloses
    /\ IF Socket_terminates(s)
       THEN /\ connected' = [connected EXCEPT ![s] = FALSE]
            /\ closes' = [closes EXCEPT ![s] = @ + 1]
            /\ pollt' = [pollt EXCEPT ![s] = "drop"]
       ELSE /\ pollt' = [pollt EXCEPT ![s] = "done"]
            /\ UNCHANGED <<connected, closes>>
    /\ UNCHANGED <<seq, generated, acc, sid, hb, hbFirst, hbsock, elapsed,
                   pongs, wire, sockets, removed, replaced, ext>>

\* The peer sends a frame the codec rejects: socket.next() yields Err, or
\* handle_inconming_packet returns Err, and the loop of poll_packet breaks.
\* The task ends there; nothing else is called.
peer_error(s) ==
    /\ pollt[s] = "running"
    /\ connected[s]
    /\ TotalErrors < MaxErrors
    /\ pollt' = [pollt EXCEPT ![s] = "failed"]
    /\ UNCHANGED <<seq, generated, acc, sid, connected, hb, hbFirst, hbsock,
                   elapsed, pongs, wire, closes, sockets, removed, replaced,
                   ext>>

\* the on_close wrapper: server.drop_socket(&sid).await
poll_drop_socket(s) ==
    /\ pollt[s] = "drop"
    /\ sockets' = Remove(sid[s])
    /\ removed' = Removed(sid[s])
    /\ pollt' = [pollt EXCEPT ![s] = "done"]
    /\ UNCHANGED <<seq, generated, acc, sid, connected, hb, hbFirst, hbsock,
                   elapsed, pongs, wire, closes, replaced, ext>>

\* socket.next() yields None once the session's transport is closed.
poll_end(s) ==
    /\ pollt[s] = "running"
    /\ ~connected[s]
    /\ pollt' = [pollt EXCEPT ![s] = "ended"]
    /\ UNCHANGED <<seq, generated, acc, sid, connected, hb, hbFirst, hbsock,
                   elapsed, pongs, wire, closes, sockets, removed, replaced,
                   ext>>

\* ------------------------------------------------- the application
\* Server::emit(sid, packet) called by the application, with a Message frame.
Server_emit(x) ==
    /\ ext.pc = "idle"
    /\ wire' = emit_wire(x, "Message")
    /\ ext' = [pc |-> "emitted", sock |-> 0, res |-> emit_result(x),
               disc |-> DisconnectedSid(x), framed |-> emit_frames(x)]
    /\ UNCHANGED <<seq, generated, acc, sid, connected, pollt, hb, hbFirst,
                   hbsock, elapsed, pongs, closes, sockets, removed, replaced>>

\* Server::close_socket(sid) called by the application: the remove.
Server_close_socket(x) ==
    /\ ext.pc = "idle"
    /\ sockets' = Remove(x)
    /\ removed' = Removed(x)
    /\ ext' = IF Lookup(x) # 0
              THEN [pc |-> "disc", sock |-> Lookup(x), res |-> "none",
                    disc |-> FALSE, framed |-> FALSE]
              ELSE [pc |-> "closed", sock |-> 0, res |-> "absent",
                    disc |-> FALSE, framed |-> FALSE]
    /\ UNCHANGED <<seq, generated, acc, sid, connected, pollt, hb, hbFirst,
                   hbsock, elapsed, pongs, wire, closes, replaced>>

\* close_socket: socket.disconnect().await
ext_disconnect ==
    /\ ext.pc = "disc"
    /\ IF Socket_terminates(ext.sock)
       THEN /\ connected' = [connected EXCEPT ![ext.sock] = FALSE]
            /\ wire' = [wire EXCEPT ![ext.sock] = Send(@, "Close")]
            /\ closes' = [closes EXCEPT ![ext.sock] = @ + 1]
            /\ ext' = [ext EXCEPT !.pc = "drop"]
       ELSE /\ ext' = [ext EXCEPT !.pc = "closed"]
            /\ UNCHANGED <<connected, wire, closes>>
    /\ UNCHANGED <<seq, generated, acc, sid, pollt, hb, hbFirst, hbsock,
                   elapsed, pongs, sockets, removed, replaced>>

\* the on_close wrapper: server.drop_socket(&sid).await
ext_drop_socket ==
    /\ ext.pc = "drop"
    /\ sockets' = Remove(sid[ext.sock])
    /\ removed' = Removed(sid[ext.sock])
    /\ ext' = [ext EXCEPT !.pc = "closed"]
    /\ UNCHANGED <<seq, generated, acc, sid, connected, pollt, hb, hbFirst,
                   hbsock, elapsed, pongs, wire, closes, replaced>>

\* The API call has returned to the application.
ext_return ==
    /\ ext.pc \in {"emitted", "closed"}
    /\ ext' = Idle
    /\ UNCHANGED <<seq, generated, acc, sid, connected, pollt, hb, hbFirst,
                   hbsock, elapsed, pongs, wire, closes, sockets, removed,
                   replaced>>


\* ------------------------------------------ the lock of the registry
\* Inner.sockets is a tokio RwLock: the callers of Server::emit take it for
\* reading, close_socket, drop_socket and store_stream for writing.
NumCallers == 2     \* tasks that call Server::emit and Server::close_socket

Callers == 1..NumCallers

VARIABLES
    rw,         \* the RwLock: the caller that holds it for writing (0: none)
                \* and the callers that hold it for reading
    call,       \* per caller: where it is in its call, the Sid it passed,
                \* the socket close_socket took out
    full        \* per session: the write buffer of its transport is full

lockVars == <<rw, call, full>>

NoCall == [pc |-> "idle", x |-> NoSid, sock |-> 0]

InitLock ==
    /\ rw = [writer |-> 0, readers |-> {}]
    /\ call = [c \in Callers |-> NoCall]
    /\ full = [s \in Sessions |-> FALSE]

\* sockets.read().await and sockets.write().await return.
read_free == rw.writer = 0
write_free == rw.writer = 0 /\ rw.readers = {}

\* A task that takes the write lock, changes the registry and lets the lock
\* go without an await in between.
WriteLocked(A) == write_free /\ A

\* The peer of s stops reading, and reads again.
transport_fill(s) ==
    /\ connected[s]
    /\ ~full[s]
    /\ full' = [full EXCEPT ![s] = TRUE]
    /\ UNCHANGED <<serverVars, rw, call>>

transport_drain(s) ==
    /\ full[s]
    /\ full' = [full EXCEPT ![s] = FALSE]
    /\ UNCHANGED <<serverVars, rw, call>>

\* Server::emit: let sockets = self.inner.sockets.read().await
emit_read(c, x) ==
    /\ call[c].pc = "idle"
    /\ read_free
    /\ rw' = [rw EXCEPT !.readers = @ \cup {c}]
    /\ call' = [call EXCEPT ![c] = [pc |-> "emit", x |-> x, sock |-> 0]]
    /\ UNCHANGED <<serverVars, full>>

\* Server::emit: socket.emit(packet).await of the socket found, which
\* suspends while the transport takes no frame; then the guard goes out of
\* scope.
emit_await(c) ==
    /\ call[c].pc \in {"emit", "emit_suspended"}
    /\ IF Lookup(call[c].x) # 0 /\ connected[Lookup(call[c].x)]
          /\ full[Lookup(call[c].x)]
       THEN /\ call[c].pc = "emit"
            /\ call' = [call EXCEPT ![c].pc = "emit_suspended"]
            /\ UNCHANGED <<rw, wire>>
       ELSE /\ wire' = emit_wire(call[c].x, "Message")
            /\ rw' = [rw EXCEPT !.readers = @ \ {c}]
            /\ call' = [call EXCEPT ![c].pc = "done"]
    /\ UNCHANGED <<seq, generated, acc, sid, connected, pollt, hb, hbFirst,
                   hbsock, elapsed, pongs, closes, sockets, removed, replaced,
                   ext, full>>

\* close_socket: sockets.write().await and sockets.remove(sid)
close_write(c, x) ==
    /\ call[c].pc = "idle"
    /\ write_free
    /\ rw' = [rw EXCEPT !.writer = c]
    /\ sockets' = Remove(x)
    /\ removed' = Removed(x)
    /\ call' = [call EXCEPT ![c] = [pc |-> "removed", x |-> x,
                                    sock |-> Lookup(x)]]
    /\ UNCHANGED <<seq, generated, acc, sid, connected, pollt, hb, hbFirst,
                   hbsock, elapsed, pongs, wire, closes, replaced, ext, full>>

\* The variant of close_socket that keeps the guard while it disconnects.
drop_guard_late(c) == rw
\* close_socket: drop(sockets) before socket.disconnect()
drop_guard(c) == [rw EXCEPT !.writer = 0]

\* close_socket after the remove: with a socket drop(sockets) and on to
\* disconnect, without one the guard goes out of scope as the call returns.
close_drop(c) ==
    /\ call[c].pc = "removed"
    /\ IF call[c].sock # 0
       THEN /\ rw' = drop_guard(c)
            /\ call' = [call EXCEPT ![c].pc = "disconnect"]
       ELSE /\ rw' = [rw EXCEPT !.writer = 0]
            /\ call' = [call EXCEPT ![c].pc = "done"]
    /\ UNCHANGED <<serverVars, full>>

\* close_socket: socket.disconnect().await sends Close and invokes the
\* on_close wrapper, which calls the user's on_close first.
close_disconnect(c) ==
    /\ call[c].pc = "disconnect"
    /\ IF Socket_terminates(call[c].sock)
       THEN /\ connected' = [connected EXCEPT ![call[c].sock] = FALSE]
            /\ wire' = [wire EXCEPT ![call[c].sock] = Send(@, "Close")]
            /\ closes' = [closes EXCEPT ![call[c].sock] = @ + 1]
            /\ call' = [call EXCEPT ![c].pc = "on_close"]
            /\ UNCHANGED rw
       ELSE /\ call' = [call EXCEPT ![c].pc = "done"]
            /\ rw' = [rw EXCEPT !.writer = IF @ = c THEN 0 ELSE @]
            /\ UNCHANGED <<connected, wire, closes>>
    /\ UNCHANGED <<seq, generated, acc, sid, pollt, hb, hbFirst, hbsock,
                   elapsed, pongs, sockets, removed, replaced, ext, full>>

\* The user's on_close returns; the wrapper goes on to drop_socket.
on_close_return(c) ==
    /\ call[c].pc = "on_close"
    /\ call' = [call EXCEPT ![c].pc = "drop"]
    /\ UNCHANGED <<serverVars, rw, full>>

\* the on_close wrapper: server.drop_socket(&sid).await, after which
\* disconnect and close_socket return and every guard still held goes out
\* of scope.
close_drop_socket(c) ==
    /\ call[c].pc = "drop"
    /\ write_free
    /\ sockets' = Remove(sid[call[c].sock])
    /\ removed' = Removed(sid[call[c].sock])
    /\ call' = [call EXCEPT ![c].pc = "done"]
    /\ UNCHANGED <<seq, generated, acc, sid, connected, pollt, hb, hbFirst,
                   hbsock, elapsed, pongs, wire, closes, replaced, ext, rw,
                   full>>

\* The call has returned.
call_return(c) ==
    /\ call[c].pc = "done"
    /\ call' = [call EXCEPT ![c] = NoCall]
    /\ UNCHANGED <<serverVars, rw, full>>

\* ================================================= Socket.IO client socket
\* (socketio/src/socket.rs).  Text and binary data are sequences of fragments,
\* each a digit, a punctuation mark, a word or a byte.

NumThreads == 2     \* threads that hold a clone of the Socket
MaxFrames  == 3     \* frames and transport errors the server side delivers
MaxOut     == 1     \* a send starts while fewer frames than this were emitted

U8         == 256   \* attachments.len() is cast to u8

Threads == 1..NumThreads

Digit == <<"0", "1", "2", "3", "4", "5", "6", "7", "8", "9">>

IsDigit(c) == \E d \in 1..10 : Digit[d] = c

DigitVal(c) == (CHOOSE d \in 1..10 : Digit[d] = c) - 1

\* format!("{}", n) as text.
RECURSIVE to_string(_)
to_string(n) ==
    IF n < 10 THEN <<Digit[n + 1]>>
    ELSE to_string(n \div 10) \o <<Digit[(n % 10) + 1]>>

\* The number of digits b starts with, and their value.
RECURSIVE LeadingDigits(_)
LeadingDigits(b) ==
    IF b # <<>> /\ IsDigit(b[1]) THEN 1 + LeadingDigits(Tail(b)) ELSE 0

RECURSIVE Decimal(_)
Decimal(b) ==
    IF b = <<>> THEN 0
    ELSE 10 * Decimal(SubSeq(b, 1, Len(b) - 1)) + DigitVal(b[Len(b)])

Drop(b, n) == SubSeq(b, n + 1, Len(b))

\* PacketId of the Socket.IO packet, in the order of its wire digit 0..6.
PacketIds == <<"Connect", "Disconnect", "Event", "Ack", "ConnectError",
               "BinaryEvent", "BinaryAck">>

BinaryIds == {"BinaryEvent", "BinaryAck"}

TypeDigit(ty) == Digit[CHOOSE k \in 1..7 : PacketIds[k] = ty]

Namespaces == {"/", "/admin"}

Placeholder == "{\"_placeholder\":true,\"num\":"

\* Payload::Number, Payload::Binary, Payload::String.
Number(n) == [kind |-> "Number", val |-> n]
Binary(b) == [kind |-> "Binary", val |-> b]
String(s) == [kind |-> "String", val |-> s]

\* serde_json::from_str(s).is_ok(), for the texts used here: a number, a
\* quoted string, or a literal.
is_json(s) ==
    \/ s # <<>> /\ LeadingDigits(s) = Len(s)
    \/ Len(s) >= 2 /\ s[1] = "\"" /\ s[Len(s)] = "\""
    \/ s \in {<<"true">>, <<"false">>, <<"null">>}

\* Vec::push, and its variant that puts the element in front.
push_front(v, x) == <<x>> \o v
push(v, x) == Append(v, x)

\* The body of the loop of Socket::encode_payloads for the payload at index.
encode_payload(data, payloads, attachments, index) ==
    LET payload == payloads[index]
        d1 == CASE payload.kind = "Number" -> data \o to_string(payload.val)
                [] payload.kind = "Binary" ->
                      data \o <<Placeholder>>
                           \o to_string(Len(attachments)) \o <<"}">>
                [] payload.kind = "String" ->
                      IF is_json(payload.val) THEN data \o payload.val
                      ELSE data \o <<"\"">> \o payload.val \o <<"\"">>
    IN [data |-> IF index < Len(payloads) THEN d1 \o <<",">> ELSE d1,
        attachments |-> IF payload.kind = "Binary"
                        THEN push(attachments, payload.val) ELSE attachments]

\* Socket::encode_payloads: the loop over the payloads lo..hi in order, the
\* second half continuing from what the first half has produced (data is
\* never empty: it starts with "[").
RECURSIVE encode_payloads(_, _, _, _, _)
encode_payloads(data, payloads, attachments, lo, hi) ==
    IF lo > hi THEN [data |-> data, attachments |-> attachments]
    ELSE IF lo = hi THEN encode_payload(data, payloads, attachments, lo)
    ELSE LET mid  == (lo + hi) \div 2
             half == encode_payloads(data, payloads, attachments, lo, mid)
         IN IF Len(half.data) > 0
            THEN encode_payloads(half.data, payloads, half.attachments,
                                 mid + 1, hi)
            ELSE half

\* Socket::encode_data.
encode_data(event, payloads) ==
    LET d0 == IF event # None
              THEN <<"[", "\"">> \o event[1] \o <<"\"">>
                     \o (IF payloads # <<>> THEN <<",">> ELSE <<>>)
              ELSE <<"[">>
        enc == encode_payloads(d0, payloads, <<>>, 1, Len(payloads))
    IN [data |-> enc.data \o <<"]">>, attachments |-> enc.attachments]

\* The variant of build_packet_for_payloads that takes a packet without event
\* name for an ack.
build_packet_for_payloads_by_event(payloads, event, nsp, id, is_ack) ==
    LET enc == encode_data(event, payloads)
        packet_type ==
            CASE enc.attachments = <<>> /\ event = None -> "Ack"
              [] enc.attachments = <<>> /\ event # None -> "Event"
              [] enc.attachments # <<>> /\ event = None -> "BinaryAck"
              [] OTHER -> "BinaryEvent"
    IN [packet_type |-> packet_type, nsp |-> nsp, data |-> Some(enc.data),
        id |-> id, attachment_count |-> Len(enc.attachments) % U8,
        attachments |-> Some(enc.attachments)]

\* Socket::build_packet_for_payloads; the attachment count is cast to u8.
build_packet_for_payloads(payloads, event, nsp, id, is_ack) ==
    LET enc == encode_data(event, payloads)
        packet_type ==
            CASE enc.attachments = <<>> /\ is_ack -> "Ack"
              [] enc.attachments = <<>> /\ ~is_ack -> "Event"
              [] enc.attachments # <<>> /\ is_ack -> "BinaryAck"
              [] OTHER -> "BinaryEvent"
    IN [packet_type |-> packet_type, nsp |-> nsp, data |-> Some(enc.data),
        id |-> id, attachment_count |-> Len(enc.attachments) % U8,
        attachments |-> Some(enc.attachments)]

\* Bytes::from(&Packet): type digit, attachment count and "-" for the binary
\* types, namespace and "," unless it is "/", the id, the data.
Packet_bytes(p) ==
    <<TypeDigit(p.packet_type)>>
    \o (IF p.packet_type \in BinaryIds
        THEN to_string(p.attachment_count) \o <<"-">> ELSE <<>>)
    \o (IF p.nsp # "/" THEN <<p.nsp, ",">> ELSE <<>>)
    \o (IF p.id # None THEN to_string(p.id[1]) ELSE <<>>)
    \o (IF p.data # None THEN p.data[1] ELSE <<>>)

InvalidPacket == [ok |-> FALSE, packet |-> None]

\* Packet::try_from(&Bytes): the inverse of Packet_bytes; the attachments are
\* not part of the text and are left out.
Packet_try_from(b) ==
    IF b = <<>> \/ ~IsDigit(b[1]) \/ DigitVal(b[1]) > 6 THEN InvalidPacket
    ELSE
      LET ty  == PacketIds[DigitVal(b[1]) + 1]
          r1  == Tail(b)
          bin == ty \in BinaryIds
          n1  == LeadingDigits(r1)
          badCount == bin /\ (n1 = 0 \/ Len(r1) = n1 \/ r1[n1 + 1] # "-")
          count == IF bin /\ ~badCount THEN Decimal(SubSeq(r1, 1, n1)) ELSE 0
          r2  == IF bin /\ ~badCount THEN Drop(r1, n1 + 1) ELSE r1
          hasNsp == r2 # <<>> /\ r2[1] \in Namespaces \ {"/"}
          badNsp == hasNsp /\ (Len(r2) < 2 \/ r2[2] # ",")
          nsp == IF hasNsp THEN r2[1] ELSE "/"
          r3  == IF hasNsp /\ ~badNsp THEN Drop(r2, 2) ELSE r2
          n3  == LeadingDigits(r3)
          id  == IF n3 > 0 THEN Some(Decimal(SubSeq(r3, 1, n3))) ELSE None
          r4  == Drop(r3, n3)
          badData == r4 # <<>> /\ r4[1] # "["
      IN IF badCount \/ badNsp \/ badData THEN InvalidPacket
         ELSE [ok |-> TRUE,
               packet |-> [packet_type |-> ty, nsp |-> nsp,
                           data |-> IF r4 = <<>> THEN None ELSE Some(r4),
                           id |-> id, attachment_count |-> count,
                           attachments |-> None]]


\* ------------------------------------------------ the socket's state
VARIABLES
    sio_connected,  \* Socket.connected
    fell,           \* history: Socket.connected went from true to false
    engine,         \* the Engine.IO client: "init", "open" or "closed"
    arrived,        \* what the server side delivered, in arrival order
    rd,             \* how many of them engine_client.poll() has handed out
    outbox,         \* the frames handed to engine_client.emit(), in order
    th              \* per thread: the call it is in and the call's locals

socketVars == <<sio_connected, fell, engine, arrived, rd, outbox, th>>

\* An Engine.IO packet.
EnginePacket(id, data) == [packet_id |-> id, data |-> data]

\* What the sender and the server side put into attachments.
BytesA == <<"#a">>
BytesB == <<"#b">>

\* The packets the application sends.
OutPackets ==
    { build_packet_for_payloads(<<Number(1)>>, Some(<<"e">>), "/", None, FALSE),
      build_packet_for_payloads(<<Binary(BytesA), Binary(BytesB)>>,
                                Some(<<"e">>), "/", None, FALSE) }

\* What the server side delivers: the packets Connect, Disconnect and
\* ConnectError,
ControlDeliveries ==
    { EnginePacket("Message", <<"0">>),
      EnginePacket("Message", <<"1">>),
      EnginePacket("Message", <<"4">>) }

\* and a BinaryEvent announcing two attachments, two binary frames, a Ping,
\* and an error of the transport.
Deliveries ==
    ControlDeliveries \cup
    { EnginePacket("Message", <<"5", "2", "-", "[", "\"", "e", "\"", "]">>),
      EnginePacket("MessageBinary", BytesA),
      EnginePacket("MessageBinary", BytesB),
      EnginePacket("Ping", <<>>),
      EnginePacket("TransportError", <<>>) }

ThreadIdle ==
    [pc |-> "idle", op |-> "none", res |-> "none", packet |-> None,
     left |-> 0, attachments |-> <<>>, next |-> 0, start |-> 0, stop |-> 0,
     alone |-> TRUE]

InitSocket ==
    /\ sio_connected = FALSE
    /\ fell = FALSE
    /\ engine = "init"
    /\ arrived = <<>>
    /\ rd = 0
    /\ outbox = <<>>
    /\ th = [t \in Threads |-> ThreadIdle]

\* ---- the Engine.IO client (rust_engineio::Client)
EngineClient_is_connected == engine = "open"

\* poll() has something to return: the next delivery, or Ok(None) once the
\* client is closed and everything delivered was handed out.
EngineClient_poll_ready == rd < Len(arrived) \/ engine = "closed"

EngineClient_poll_none == rd = Len(arrived)

\* The call of thread t returns res.
Return(t, res) == [th EXCEPT ![t].pc = "ret", ![t].res = res]

\* The flag after a store of v.
Fell(v) == fell \/ (sio_connected /\ ~v)

\* ---- the server side
deliver(f) ==
    /\ engine = "open"
    /\ Len(arrived) < MaxFrames
    /\ arrived' = Append(arrived, f)
    /\ UNCHANGED <<sio_connected, fell, engine, rd, outbox, th>>

transport_close ==
    /\ engine = "open"
    /\ engine' = "closed"
    /\ UNCHANGED <<sio_connected, fell, arrived, rd, outbox, th>>

\* ---- Socket::connect
connect_engine(t) ==
    /\ th[t].pc = "idle"
    /\ IF engine = "init"
       THEN /\ engine' = "open"
            /\ th' = [th EXCEPT ![t].pc = "connect_store", ![t].op = "connect"]
       ELSE /\ engine' = engine
            /\ th' = [th EXCEPT ![t].pc = "ret", ![t].op = "connect",
                                ![t].res = "Err"]
    /\ UNCHANGED <<sio_connected, fell, arrived, rd, outbox>>

connect_store(t) ==
    /\ th[t].pc = "connect_store"
    /\ sio_connected' = TRUE
    /\ th' = Return(t, "Ok")
    /\ UNCHANGED <<fell, engine, arrived, rd, outbox>>

\* ---- Socket::disconnect
disconnect_engine(t) ==
    /\ th[t].pc = "idle"
    /\ engine' = IF EngineClient_is_connected THEN "closed" ELSE engine
    /\ th' = [th EXCEPT ![t].pc = "disconnect_store", ![t].op = "disconnect"]
    /\ UNCHANGED <<sio_connected, fell, arrived, rd, outbox>>

disconnect_store(t) ==
    /\ th[t].pc = "disconnect_store"
    /\ sio_connected' = FALSE
    /\ fell' = Fell(FALSE)
    /\ th' = Return(t, "Ok")
    /\ UNCHANGED <<engine, arrived, rd, outbox>>


\* ---- Socket::send
\* The guard of send, and its variant that refuses only when both fail.
send_refused_both(engine_connected, flag) ==
    ~engine_connected /\ ~flag
send_refused(engine_connected, flag) ==
    ~engine_connected \/ ~flag

\* The two loads of the guard are one step: the Engine.IO client never returns
\* to "open", so a call sees what it would see had both been read at the load
\* of the flag.
send_check(t, p) ==
    /\ th[t].pc = "idle"
    /\ Len(outbox) < MaxOut
    /\ th' = IF send_refused(EngineClient_is_connected, sio_connected)
             THEN [th EXCEPT ![t].pc = "ret", ![t].op = "send",
                             ![t].res = "IllegalActionBeforeOpen"]
             ELSE [th EXCEPT ![t].pc = "send_message", ![t].op = "send",
                             ![t].packet = Some(p)]
    /\ UNCHANGED <<sio_connected, fell, engine, arrived, rd, outbox>>

send_message(t) ==
    /\ th[t].pc = "send_message"
    /\ LET packet == th[t].packet[1] IN
       IF EngineClient_is_connected
       THEN /\ outbox' = Append(outbox,
                                EnginePacket("Message", Packet_bytes(packet)))
            /\ th' = IF packet.attachments = None
                        \/ packet.attachments[1] = <<>>
                     THEN Return(t, "Ok")
                     ELSE [th EXCEPT ![t].pc = "send_attachment",
                                     ![t].next = 1]
       ELSE /\ outbox' = outbox
            /\ th' = Return(t, "IllegalActionBeforeOpen")
    /\ UNCHANGED <<sio_connected, fell, engine, arrived, rd>>

send_attachment(t) ==
    /\ th[t].pc = "send_attachment"
    /\ LET attachments == th[t].packet[1].attachments[1] IN
       IF EngineClient_is_connected
       THEN /\ outbox' = Append(outbox,
                        EnginePacket("MessageBinary", attachments[th[t].next]))
            /\ th' = IF th[t].next = Len(attachments)
                     THEN Return(t, "Ok")
                     ELSE [th EXCEPT ![t].next = @ + 1]
       ELSE /\ outbox' = outbox
            /\ th' = Return(t, "IllegalActionBeforeOpen")
    /\ UNCHANGED <<sio_connected, fell, engine, arrived, rd>>

\* ---- Socket::poll
\* Socket::handle_socketio_packet: the flag after a packet of type ty.
handle_socketio_packet(ty, flag) ==
    CASE ty = "Connect" -> TRUE
      [] ty = "ConnectError" -> FALSE
      [] ty = "Disconnect" -> FALSE
      [] OTHER -> flag

\* The frames handle_engineio_packet takes as attachments, and the variant
\* that takes every frame.
attachment_frame_any(id) == TRUE
attachment_frame(id) == id \in {"MessageBinary", "Message"}

\* Thread t has taken a delivery and goes on as the record now; a thread that
\* was waiting for its attachments is no longer the only reader.
Polled(t, now) ==
    [u \in Threads |->
        IF u = t THEN now
        ELSE IF th[u].pc = "poll_attachments"
             THEN [th[u] EXCEPT !.alone = FALSE]
             ELSE th[u]]

\* The loop of poll: one engine_client.poll(), and for a Message frame without
\* attachments the rest of the call.
poll_engine(t) ==
    /\ th[t].pc \in {"idle", "poll"}
    /\ EngineClient_poll_ready
    /\ LET me == [th[t] EXCEPT !.op = "poll"] IN
       IF EngineClient_poll_none
       THEN /\ th' = [th EXCEPT ![t] = [me EXCEPT !.pc = "ret", !.res = "Ok"]]
            /\ UNCHANGED <<rd, sio_connected, fell>>
       ELSE
         LET f == arrived[rd + 1]
             parsed == Packet_try_from(f.data)
             err(e) == [me EXCEPT !.pc = "ret", !.res = e]
         IN /\ rd' = rd + 1
            /\ IF f.packet_id = "TransportError"
               THEN /\ th' = Polled(t, err("Err"))
                    /\ UNCHANGED <<sio_connected, fell>>
               ELSE IF f.packet_id \notin {"Message", "MessageBinary"}
               THEN /\ th' = Polled(t, [me EXCEPT !.pc = "poll"])
                    /\ UNCHANGED <<sio_connected, fell>>
               ELSE IF ~parsed.ok
               THEN /\ th' = Polled(t, err("InvalidPacket"))
                    /\ UNCHANGED <<sio_connected, fell>>
               ELSE IF parsed.packet.attachment_count > 0
               THEN /\ th' = Polled(t, [me EXCEPT
                                 !.pc = "poll_attachments",
                                 !.packet = Some(parsed.packet),
                                 !.left = parsed.packet.attachment_count,
                                 !.start = rd + 1])
                    /\ UNCHANGED <<sio_connected, fell>>
               ELSE /\ th' = Polled(t, [me EXCEPT
                                 !.pc = "ret", !.res = "Ok",
                                 !.packet = Some(parsed.packet),
                                 !.start = rd + 1, !.stop = rd + 1])
                    /\ sio_connected' = handle_socketio_packet(
                                 parsed.packet.packet_type, sio_connected)
                    /\ fell' = Fell(sio_connected')
    /\ UNCHANGED <<engine, arrived, outbox>>

\* The loop of handle_engineio_packet: one engine_client.poll(), and after the
\* last attachment the rest of the call.
poll_attachment(t) ==
    /\ th[t].pc = "poll_attachments"
    /\ EngineClient_poll_ready
    /\ LET err(e) == [th[t] EXCEPT !.pc = "ret", !.res = e, !.packet = None]
       IN
       IF EngineClient_poll_none
       THEN /\ th' = [th EXCEPT ![t] = err("IncompletePacket")]
            /\ UNCHANGED <<rd, sio_connected, fell>>
       ELSE
         LET f == arrived[rd + 1]
             attachments == push(th[t].attachments, f.data)
             packet == [th[t].packet[1] EXCEPT
                          !.attachments = Some(attachments)]
         IN /\ rd' = rd + 1
            /\ IF f.packet_id = "TransportError"
               THEN /\ th' = Polled(t, err("Err"))
                    /\ UNCHANGED <<sio_connected, fell>>
               ELSE IF ~attachment_frame(f.packet_id)
               THEN /\ th' = Polled(t, err("InvalidAttachmentPacketType"))
                    /\ UNCHANGED <<sio_connected, fell>>
               ELSE IF th[t].left > 1
               THEN /\ th' = Polled(t, [th[t] EXCEPT
                                 !.attachments = attachments, !.left = @ - 1])
                    /\ UNCHANGED <<sio_connected, fell>>
               ELSE /\ th' = Polled(t, [th[t] EXCEPT
                                 !.pc = "ret", !.res = "Ok",
                                 !.packet = Some(packet),
                                 !.attachments = attachments,
                                 !.left = 0, !.stop = rd + 1])
                    /\ sio_connected' = handle_socketio_packet(
                                 packet.packet_type, sio_connected)
                    /\ fell' = Fell(sio_connected')
    /\ UNCHANGED <<engine, arrived, outbox>>

\* The call has returned; the thread is free for its next call.
op_return(t) ==
    /\ th[t].pc = "ret"
    /\ th' = [th EXCEPT ![t] = ThreadIdle]
    /\ UNCHANGED <<sio_connected, fell, engine, arrived, rd, outbox>>

\* ------------------------------- build_packet_for_payloads as a call
MaxPayloads == 2    \* payloads of the lists that are enumerated

VARIABLES
    built           \* the call of build_packet_for_payloads that has returned:
                    \* None, or Some of its arguments and its result

buildVars == <<built>>

InitBuild == built = None

\* The payloads the lists are made of.
PayloadValues ==
    { Number(1), Binary(BytesA), Binary(BytesB),
      String(<<"x">>), String(<<"7">>) }

\* The lists of up to MaxPayloads payloads, and a list of as many Binary
\* payloads as a u8 has values.
PayloadLists ==
    UNION {[1..n -> PayloadValues] : n \in 0..MaxPayloads}
    \cup {[k \in 1..U8 |-> Binary(BytesA)]}

\* The arguments of build_packet_for_payloads.
BuildArgs ==
    [payloads : PayloadLists, event : {None, Some(<<"e">>)},
     nsp : Namespaces, id : {None, Some(456)}, is_ack : BOOLEAN]

build(a) ==
    build_packet_for_payloads(a.payloads, a.event, a.nsp, a.id, a.is_ack)

build_call(a) ==
    /\ built = None
    /\ built' = Some([args |-> a, packet |-> build(a)])

build_return ==
    /\ built # None
    /\ built' = None

\* ------------------------------------- a sending and a receiving socket
\* One thread sends on a Socket, another polls the Socket at the other end of
\* the connection: what the sender handed to its Engine.IO client arrives at
\* the receiver's, in order.
Sender == CHOOSE t \in Threads : TRUE
Receiver == CHOOSE t \in Threads \ {Sender} : TRUE

\* The packets build_packet_for_payloads makes of the enumerated arguments.
BuiltPackets == {build(a) : a \in BuildArgs}

\* The frames of the calls of send that have returned reach the other end.
wire_carry ==
    /\ th[Sender].pc \notin {"send_message", "send_attachment"}
    /\ Len(arrived) < Len(outbox)
    /\ arrived' = outbox
    /\ UNCHANGED <<sio_connected, fell, engine, rd, outbox, th>>

\* ------------------------------------------- the request classifier
MaxPairs == 2       \* query parameters of a request
MaxLines == 2       \* header lines of a request

\* A complete request head as httparse and Url hand it to parse_request_type:
\* the method, the query pairs and the header lines in their order, and the
\* bytes that follow the head in the buffer.  A byte is a one-character string
\* or "xFF", a byte no UTF-8 text contains.
Methods == {"GET", "POST", "PUT"}

QueryPairs ==
    { <<"EIO", "4">>, <<"EIO", "3">>, <<"sid", "s">>, <<"t", "x">> }

HeaderLines ==
    { <<"Upgrade", <<"w">>>>, <<"Host", <<"h">>>>,
      <<"Content-Length", <<"1">>>>, <<"Content-Length", <<"9">>>>,
      <<"Content-Length", <<"x">>>> }

Bodies == { <<>>, <<"a">>, <<"xFF">> }

HttpRequests ==
    [ method  : Methods,
      query   : UNION {[1..n -> QueryPairs] : n \in 0..MaxPairs},
      headers : UNION {[1..n -> HeaderLines] : n \in 0..MaxLines},
      body    : Bodies ]

\* std::str::from_utf8(b).is_ok()
from_utf8_ok(b) == \A i \in 1..Len(b) : b[i] # "xFF"

\* str::parse::<usize>: an optional "+" and then digits, at least one.
parse_usize(b) ==
    LET digits == IF b # <<>> /\ b[1] = "+" THEN Tail(b) ELSE b
    IN  IF digits # <<>> /\ LeadingDigits(digits) = Len(digits)
        THEN Some(Decimal(digits))
        ELSE None

\* Option<RequestType>; Panicked is the slice index out of range.
Rejected == [kind |-> "None", sid |-> None]
Panicked == [kind |-> "panic", sid |-> None]
WsUpgrade(x) == [kind |-> "WsUpgrade", sid |-> x]
PollingOpen == [kind |-> "PollingOpen", sid |-> None]
PollingGet(x) == [kind |-> "PollingGet", sid |-> Some(x)]
PollingPost(x) == [kind |-> "PollingPost", sid |-> Some(x)]

\* The loop over url.query_pairs() from pair i on: whether it has returned
\* None, and the sid it leaves.
RECURSIVE query_loop(_, _, _)
query_loop(query, i, x) ==
    IF i > Len(query) THEN [returned |-> FALSE, sid |-> x]
    ELSE IF query[i][1] = "EIO" /\ query[i][2] # "4"
    THEN [returned |-> TRUE, sid |-> x]
    ELSE query_loop(query, i + 1,
                    IF query[i][1] = "sid" THEN Some(query[i][2]) ELSE x)

\* The loop over req.headers from line i on: what it has returned, if it
\* has, and the content_length it leaves.
RECURSIVE header_loop(_, _, _, _, _)
header_loop(headers, i, method, x, content_length) ==
    IF i > Len(headers)
    THEN [returned |-> None, content_length |-> content_length]
    ELSE IF headers[i][1] = "Upgrade" /\ method = "GET"
    THEN [returned |-> Some(WsUpgrade(x)), content_length |-> content_length]
    ELSE IF headers[i][1] = "Content-Length"
    THEN IF ~from_utf8_ok(headers[i][2]) \/ parse_usize(headers[i][2]) = None
         THEN [returned |-> Some(Rejected), content_length |-> content_length]
         ELSE header_loop(headers, i + 1, method, x,
                          parse_usize(headers[i][2])[1])
    ELSE header_loop(headers, i + 1, method, x, content_length)

\* parse_request_type on a complete request head.
parse_request_type(req) ==
    IF req.method # "GET" /\ req.method # "POST" THEN Rejected
    ELSE LET q == query_loop(req.query, 1, None)
             h == header_loop(req.headers, 1, req.method, q.sid, 0)
         IN  IF q.returned THEN Rejected
             ELSE IF h.returned # None THEN h.returned[1]
             ELSE IF req.method = "POST"
             THEN IF h.content_length > Len(req.body) THEN Panicked
                  ELSE IF ~from_utf8_ok(SubSeq(req.body, 1, h.content_length))
                  THEN Rejected
                  ELSE PollingPost(SubSeq(req.body, 1, h.content_length))
             ELSE IF q.sid # None THEN PollingGet(q.sid[1])
             ELSE PollingOpen

\* ------------------------------------------------- accept_connection
VARIABLES
    conn            \* the connection the accept loop has spawned a task for:
                    \* where the task is, the request on the stream, what
                    \* peek_request_type made of it, the HTTP responses
                    \* written to the stream, and whether the stream went to
                    \* the WebsocketAcceptor

connVars == <<conn>>

NoConn ==
    [pc |-> "listen", req |-> None, type |-> Rejected, responses |-> <<>>,
     websocket |-> FALSE]

InitConn == conn = NoConn

\* http_response(status, body): the body is an Engine.IO frame, its packet
\* id and what follows it.
http_response(status, packet_id, data) ==
    [status |-> status, packet_id |-> packet_id, data |-> data]

\* accept_connection up to the match: peek_request_type.  A panic of
\* parse_request_type ends the task.
peek_request_type(req) ==
    /\ conn.pc = "listen"
    /\ conn' = [conn EXCEPT
                  !.pc = IF parse_request_type(req) = Panicked
                         THEN "done" ELSE "peeked",
                  !.req = Some(req),
                  !.type = parse_request_type(req)]
    /\ UNCHANGED serverVars

\* The arm `_` of accept_connection: PollingAcceptor::accept reads the
\* request again and answers PollingOpen and PollingGet.
accept_PollingOpen ==
    /\ conn.pc = "peeked"
    /\ parse_request_type(conn.req[1]) = PollingOpen
    /\ PollingAcceptor_accept
    /\ conn' = [conn EXCEPT
                  !.pc = "done",
                  !.responses = Append(@, http_response(200, "0",
                      Some(handshake_packet(<<"websocket">>, generate(seq)))))]

accept_PollingGet ==
    /\ conn.pc = "peeked"
    /\ parse_request_type(conn.req[1]).kind = "PollingGet"
    /\ conn' = [conn EXCEPT
                  !.pc = "done",
                  !.responses = Append(@, http_response(200, "5", None))]
    /\ UNCHANGED serverVars

accept_other ==
    /\ conn.pc = "peeked"
    /\ conn.type.kind # "WsUpgrade"
    /\ parse_request_type(conn.req[1]).kind \notin {"PollingOpen", "PollingGet"}
    /\ conn' = [conn EXCEPT !.pc = "done"]
    /\ UNCHANGED serverVars

\* The arm WsUpgrade of accept_connection: the stream goes to
\* WebsocketAcceptor::accept, which writes no HTTP response of this server.
accept_WsUpgrade ==
    /\ conn.pc = "peeked"
    /\ conn.type.kind = "WsUpgrade"
    /\ conn' = [conn EXCEPT !.pc = "done", !.websocket = TRUE]
    /\ UNCHANGED serverVars

\* The task ends and the stream is dropped.
accept_return ==
    /\ conn.pc = "done"
    /\ conn' = NoConn
    /\ UNCHANGED serverVars

\* ------------------------------------------------------ specifications
vars == <<serverVars, socketVars, buildVars, connVars, wsVars, callbackVars,
          lockVars>>

Init == InitServer /\ InitSocket /\ InitBuild /\ InitConn /\ InitLock

\* A step of the server leaves the client socket alone, and conversely; a call
\* of build_packet_for_payloads touches neither.
Server(A) ==
    A /\ UNCHANGED <<socketVars, buildVars, connVars, wsVars, callbackVars,
                   lockVars>>
Client(A) ==
    A /\ UNCHANGED <<serverVars, buildVars, connVars, wsVars, callbackVars,
                   lockVars>>
Build(A) ==
    A /\ UNCHANGED <<serverVars, socketVars, connVars, wsVars, callbackVars,
                   lockVars>>
Accept(A) ==
    A /\ UNCHANGED <<socketVars, buildVars, wsVars, callbackVars, lockVars>>
Ws(A) ==
    A /\ UNCHANGED <<socketVars, buildVars, connVars, callbackVars, lockVars>>
Lock(A) ==
    A /\ UNCHANGED <<socketVars, buildVars, connVars, wsVars, callbackVars>>

\* The steps of the tasks the server spawned for connection s.
TaskStep(s) ==
    \/ Server(store_stream_connect(s))
    \/ Server(store_stream_insert(s))
    \/ Server(hb_is_connected(s))
    \/ Server(hb_emit(s))
    \/ Server(hb_last_pong(s))
    \/ Server(hb_close_socket(s))
    \/ Server(hb_disconnect(s))
    \/ Server(hb_drop_socket(s))
    \/ Server(poll_drop_socket(s))
    \/ Server(poll_end(s))

\* The server with its peers: connections of every kind arrive, peers pong and
\* close, the spawned tasks run; the application calls nothing.
NextServer ==
    \/ Server(PollingAcceptor_accept)
    \/ \E s \in Sessions, req \in Requests :
          Ws(WebsocketAcceptor_accept(s, req))
    \/ \E s \in Sessions : TaskStep(s)
    \/ Server(Tick)
    \/ \E s \in Sessions : Server(peer_pong(s))
    \/ \E s \in Sessions : Server(peer_close(s))

SpecServer == Init /\ [][NextServer]_vars

\* The executor runs every spawned task that can take a step, and time passes.
FairServer ==
    /\ SpecServer
    /\ \A s \in Sessions : WF_vars(TaskStep(s))
    /\ WF_vars(Server(Tick))

\* The server with its peers and an application that calls Server::emit and
\* Server::close_socket at any time; the connections are direct WebSocket
\* connections.
NextApi ==
    \/ \E s \in Sessions : Ws(WebsocketAcceptor_accept(s, NoSid))
    \/ \E s \in Sessions : TaskStep(s)
    \/ Server(Tick)
    \/ \E s \in Sessions : Server(peer_pong(s))
    \/ \E s \in Sessions : Server(peer_close(s))
    \/ \E x \in AllSids : Server(Server_emit(x))
    \/ \E x \in AllSids : Server(Server_close_socket(x))
    \/ Server(ext_disconnect)
    \/ Server(ext_drop_socket)
    \/ Server(ext_return)

SpecApi == Init /\ [][NextApi]_vars

\* The server with directly connected peers that pong, close, and send
\* frames the codec rejects.
NextError ==
    \/ \E s \in Sessions : Ws(WebsocketAcceptor_accept(s, NoSid))
    \/ \E s \in Sessions : TaskStep(s)
    \/ Server(Tick)
    \/ \E s \in Sessions : Server(peer_pong(s))
    \/ \E s \in Sessions : Server(peer_close(s))
    \/ \E s \in Sessions : Server(peer_error(s))

SpecError == Init /\ [][NextError]_vars

\* The registry under its lock: direct connections are stored, their peers
\* close or stop reading, and the callers emit to and close any Sid.
NextLock ==
    \/ \E s \in Sessions : Ws(WebsocketAcceptor_accept(s, NoSid))
    \/ \E s \in Sessions : Server(store_stream_connect(s))
    \/ \E s \in Sessions : Server(WriteLocked(store_stream_insert(s)))
    \/ \E s \in Sessions : Server(peer_close(s))
    \/ \E s \in Sessions : Server(WriteLocked(poll_drop_socket(s)))
    \/ \E s \in Sessions : Lock(transport_fill(s))
    \/ \E s \in Sessions : Lock(transport_drain(s))
    \/ \E c \in Callers, x \in AllSids : Lock(emit_read(c, x))
    \/ \E c \in Callers : Lock(emit_await(c))
    \/ \E c \in Callers, x \in AllSids : Lock(close_write(c, x))
    \/ \E c \in Callers : Lock(close_drop(c))
    \/ \E c \in Callers : Lock(close_disconnect(c))
    \/ \E c \in Callers : Lock(on_close_return(c))
    \/ \E c \in Callers : Lock(close_drop_socket(c))
    \/ \E c \in Callers : Lock(call_return(c))

SpecLock == Init /\ [][NextLock]_vars

\* The receiving side of the Socket.IO client socket: threads that hold a
\* clone of the Socket call connect, disconnect and poll at any time, while
\* the server side delivers frames and closes the transport.
NextSocket ==
    \/ \E f \in Deliveries : Client(deliver(f))
    \/ Client(transport_close)
    \/ \E t \in Threads : Client(connect_engine(t))
    \/ \E t \in Threads : Client(connect_store(t))
    \/ \E t \in Threads : Client(disconnect_engine(t))
    \/ \E t \in Threads : Client(disconnect_store(t))
    \/ \E t \in Threads : Client(poll_engine(t))
    \/ \E t \in Threads : Client(poll_attachment(t))
    \/ \E t \in Threads : Client(op_return(t))

SpecSocket == Init /\ [][NextSocket]_vars

\* The sending side: the threads call connect, disconnect, send and poll, and
\* the server side delivers Connect, Disconnect and ConnectError packets.
NextSend ==
    \/ \E f \in ControlDeliveries : Client(deliver(f))
    \/ Client(transport_close)
    \/ \E t \in Threads : Client(connect_engine(t))
    \/ \E t \in Threads : Client(connect_store(t))
    \/ \E t \in Threads : Client(disconnect_engine(t))
    \/ \E t \in Threads : Client(disconnect_store(t))
    \/ \E t \in Threads, p \in OutPackets : Client(send_check(t, p))
    \/ \E t \in Threads : Client(send_message(t))
    \/ \E t \in Threads : Client(send_attachment(t))
    \/ \E t \in Threads : Client(poll_engine(t))
    \/ \E t \in Threads : Client(op_return(t))

SpecSend == Init /\ [][NextSend]_vars

\* Socket::build_packet_for_payloads, called with every argument in turn.
NextBuild ==
    \/ \E a \in BuildArgs : Build(build_call(a))
    \/ Build(build_return)

SpecBuild == Init /\ [][NextBuild]_vars

\* One connection at a time through accept_connection.
NextAccept ==
    \/ \E req \in HttpRequests : Accept(peek_request_type(req))
    \/ Accept(accept_PollingOpen)
    \/ Accept(accept_PollingGet)
    \/ Accept(accept_other)
    \/ Accept(accept_WsUpgrade)
    \/ Accept(accept_return)

SpecAccept == Init /\ [][NextAccept]_vars

\* A packet is built, sent by one socket and polled by the socket at the other
\* end.
NextLoop ==
    \/ Client(connect_engine(Sender))
    \/ Client(connect_store(Sender))
    \/ \E p \in BuiltPackets : Client(send_check(Sender, p))
    \/ Client(send_message(Sender))
    \/ Client(send_attachment(Sender))
    \/ Client(wire_carry)
    \/ Client(poll_engine(Receiver))
    \/ Client(poll_attachment(Receiver))
    \/ \E t \in Threads : Client(op_return(t))

SpecLoop == Init /\ [][NextLoop]_vars

\* ============================================================ properties

\* A session store_stream has stored, that is connected and whose inbound task
\* is still reading.
Live(s) == acc[s] = "done" /\ connected[s] /\ pollt[s] = "running"

\* The connection came without a sid: handshake() sent it the Open frame.
Direct(s) == Sent(wire[s], "Open")

\* C1: in every reachable state no two live sessions share a Sid, also after a
\* WsUpgrade(Some(sid)) whose sid is the Sid of a session in the registry.
C1_LiveSidsUnique ==
    \A s, t \in Sessions : (s # t /\ Live(s) /\ Live(t)) => sid[s] # sid[t]

\* C1: both sessions of a shared Sid are there and store_stream has returned.
C1_Shared ==
    \E s, t \in Sessions :
        s # t /\ acc[s] = "done" /\ acc[t] = "done" /\ sid[s] = sid[t]

\* The encoding of the counter is injective on 0..EncRange.
EncodingInjective ==
    \A m, n \in 0..EncRange : m # n => generate(m) # generate(n)

\* The directly connected sessions that were stored and that no remove and no
\* later insert took out of the registry.
Kept == {s \in Sessions :
            Direct(s) /\ acc[s] = "done" /\ s \notin removed \cup replaced}

\* C2: any two calls of generate return distinct Sids, whatever the order in
\* which concurrent acceptors reach it; so the directly connected sessions
\* have pairwise distinct Sids and each one that was stored and not taken out
\* again is the registry's entry for its own Sid.
C2_SidsDistinct ==
    /\ EncodingInjective
    /\ \A i, j \in 1..Len(generated) : i # j => generated[i] # generated[j]
    /\ \A s, t \in Sessions :
          (s # t /\ Direct(s) /\ Direct(t)) => sid[s] # sid[t]
    /\ \A s \in Kept : sockets[sid[s]] = s
    /\ Cardinality({sid[s] : s \in Kept}) = Cardinality(Kept)

\* C2: two direct handshakes ran concurrently (both drew their Sid before
\* either was stored) and both sessions are entries of the registry.
C2_TwoEntries ==
    \E s, t \in Sessions :
        /\ s # t /\ s \in Kept /\ t \in Kept
        /\ sockets[sid[s]] = s /\ sockets[sid[t]] = t

\* The peer of s has closed, or another session was stored under its Sid.
Excused(s) == pollt[s] \in {"drop", "done"} \/ s \in replaced

\* C3: after store_stream has returned Ok for a session, a Ping frame is
\* eventually emitted to it (unless its peer closes or the session is replaced
\* first), in every interleaving of the heartbeat task with the insert.
C3_PingEventually ==
    \A s \in Sessions :
        (acc[s] = "done") ~> (Sent(wire[s], "Ping") \/ Excused(s))

\* on_close has fired for s, s is not connected and is not in the registry.
Gone(s) == closes[s] >= 1 /\ ~connected[s] /\ sockets[sid[s]] # s

\* C4: a stored session whose peer never pongs is eventually terminated, and
\* stays so: on_close fired, not connected, not in the registry.
C4_TimeoutEventually ==
    \A s \in Sessions :
        (acc[s] = "done") ~> (pongs[s] > 0 \/ s \in replaced \/ [](Gone(s)))

C6_EmitAfterDisconnectFails ==
    (ext.pc = "emitted" /\ ext.disc)
        => (ext.res = "IllegalActionBeforeOpen" /\ ~ext.framed)

\* Thread t evaluates the guard of send in this step.
SendChecks(t) ==
    th[t].pc = "idle" /\ th'[t].op = "send" /\ th'[t].pc # "idle"

\* C7: a send that finds the Socket.IO flag false or the Engine.IO client not
\* connected returns IllegalActionBeforeOpen and hands no frame to the
\* Engine.IO client; frames are handed over only by a send that passed the
\* guard.
C7_SendRefused ==
    /\ [][\A t \in Threads :
            (SendChecks(t) /\ (~sio_connected \/ engine # "open"))
                => /\ th'[t].pc = "ret"
                   /\ th'[t].res = "IllegalActionBeforeOpen"
                   /\ outbox' = outbox]_vars
    /\ [][outbox' # outbox
            => \E t \in Threads :
                  th[t].pc \in {"send_message", "send_attachment"}]_vars

\* C7: a send was refused after an incoming Disconnect or ConnectError packet
\* had cleared the flag while the Engine.IO client stayed connected.
C7_RefusedAfterPacket ==
    \E t \in Threads :
        /\ th[t].pc = "ret" /\ th[t].op = "send"
        /\ th[t].res = "IllegalActionBeforeOpen"
        /\ fell /\ ~sio_connected /\ engine = "open" /\ outbox = <<>>

\* C8: once the connected flag has gone from true to false, nothing makes it
\* true again.
C8_DisconnectedIsTerminal == fell => ~sio_connected

\* Thread t has returned a packet from a poll during which no other thread
\* polled.
Polls(t) ==
    /\ th[t].pc = "ret" /\ th[t].op = "poll" /\ th[t].res = "Ok"
    /\ th[t].packet # None
    /\ th[t].alone

\* C9: the packet poll returns for a header that announces N > 0 attachments
\* carries exactly N attachments, the payloads of the next N frames (Message
\* or MessageBinary) in arrival order; with N = 0 it consumes no further
\* frame.
C9_AttachmentsPaired ==
    \A t \in Threads :
        Polls(t) =>
            LET packet == th[t].packet[1]
                start  == th[t].start
                N == Packet_try_from(arrived[start].data).packet.attachment_count
            IN /\ packet.attachment_count = N
               /\ th[t].stop = start + N
               /\ IF N = 0 THEN packet.attachments = None
                  ELSE /\ packet.attachments # None
                       /\ Len(packet.attachments[1]) = N
                       /\ \A k \in 1..N :
                            /\ arrived[start + k].packet_id
                                  \in {"Message", "MessageBinary"}
                            /\ packet.attachments[1][k] = arrived[start + k].data

\* C9: a poll has returned a packet with two attachments that differ.
C9_TwoAttachments ==
    \E t \in Threads :
        /\ Polls(t)
        /\ th[t].packet[1].attachment_count = 2
        /\ th[t].packet[1].attachments[1][1] # th[t].packet[1].attachments[1][2]

\* Thread t, still waiting for attachments, takes the next step of its poll.
AwaitsAndPolls(t) ==
    /\ th[t].pc = "poll_attachments" /\ th[t].left > 0
    /\ (th'[t].pc # th[t].pc \/ th'[t].left # th[t].left)

\* The call of t has failed with e and returns no packet.
Fails(t, e) ==
    th'[t].pc = "ret" /\ th'[t].res = e /\ th'[t].packet = None

\* C10: while a packet awaits attachments, the end of the stream makes poll
\* fail with IncompletePacket and a frame that is neither Message nor
\* MessageBinary makes it fail with InvalidAttachmentPacketType; a failed poll
\* returns no packet.
C10_AttachmentErrors ==
    /\ [](\A t \in Threads :
            (th[t].pc = "ret" /\ th[t].op = "poll" /\ th[t].res # "Ok")
                => th[t].packet = None)
    /\ [][\A t \in Threads :
            AwaitsAndPolls(t) =>
              /\ (rd = Len(arrived) /\ engine = "closed")
                    => Fails(t, "IncompletePacket")
              /\ (rd < Len(arrived)
                  /\ arrived[rd + 1].packet_id
                        \notin {"Message", "MessageBinary", "TransportError"})
                    => Fails(t, "InvalidAttachmentPacketType")]_vars

\* C10: one poll has failed with IncompletePacket on the end of the stream,
\* another with InvalidAttachmentPacketType.
C10_BothErrors ==
    \E t, u \in Threads :
        /\ th[t].pc = "ret" /\ th[t].res = "IncompletePacket"
        /\ engine = "closed"
        /\ th[u].pc = "ret" /\ th[u].res = "InvalidAttachmentPacketType"

\* The Binary payloads of a list, in list order.
Binaries(payloads) == SelectSeq(payloads, LAMBDA x : x.kind = "Binary")

\* Where the placeholders stand in a data text, and the num of the one at i.
PlaceholdersOf(data) == {i \in 1..Len(data) : data[i] = Placeholder}

NumAt(data, i) ==
    Decimal(SubSeq(data, i + 1, i + LeadingDigits(Drop(data, i))))

\* C12: build_packet_for_payloads replaces the k-th Binary payload (from 0, in
\* list order) by a placeholder with num = k and stores its bytes as
\* attachment k; attachment_count is the number of Binary payloads and the
\* length of the attachment list, for every list length.
C12_PlaceholdersAndAttachments ==
    built # None =>
        LET packet == built[1].packet
            bins == Binaries(built[1].args.payloads)
            data == packet.data[1]
            at   == PlaceholdersOf(data)
        IN /\ packet.attachment_count = Len(bins)
           /\ packet.attachments # None
           /\ Len(packet.attachments[1]) = Len(bins)
           /\ \A k \in 1..Len(bins) : packet.attachments[1][k] = bins[k].val
           /\ Cardinality(at) = Len(bins)
           /\ \A i \in at : NumAt(data, i) = Cardinality({j \in at : j < i})

\* C13: the packet type is BinaryEvent or BinaryAck exactly if some payload is
\* Binary, and Ack or BinaryAck exactly if is_ack; event name, namespace and
\* id do not influence it.
C13_TypeFromTwoFacts ==
    built # None =>
        LET a == built[1].args
            ty == built[1].packet.packet_type
        IN /\ ty \in {"Event", "Ack", "BinaryEvent", "BinaryAck"}
           /\ (ty \in BinaryIds) <=> (Binaries(a.payloads) # <<>>)
           /\ (ty \in {"Ack", "BinaryAck"}) <=> a.is_ack
           /\ \A b \in BuildArgs :
                (b.payloads = a.payloads /\ b.is_ack = a.is_ack)
                    => build(b).packet_type = ty

\* C13: a packet was built as BinaryAck for an ack that carries an event name
\* and a namespace.
C13_AckWithEvent ==
    /\ built # None
    /\ built[1].args.is_ack /\ built[1].args.event # None
    /\ built[1].args.nsp = "/admin"
    /\ built[1].packet.packet_type = "BinaryAck"

\* The attachments of a packet as a list.
AttachmentList(p) == IF p.attachments = None THEN <<>> ELSE p.attachments[1]

SamePacket(p, q) ==
    /\ p.packet_type = q.packet_type
    /\ p.nsp = q.nsp
    /\ p.id = q.id
    /\ p.data = q.data
    /\ p.attachment_count = q.attachment_count
    /\ AttachmentList(p) = AttachmentList(q)

\* The send has returned Ok and the receiver's poll has returned the packet
\* that starts at the first frame.
SentAndPolled ==
    /\ th[Sender].pc = "ret" /\ th[Sender].op = "send" /\ th[Sender].res = "Ok"
    /\ Polls(Receiver) /\ th[Receiver].start = 1

\* C11: the packet poll reassembles at the receiving side equals the packet
\* build_packet_for_payloads built and send transmitted: same type, namespace,
\* id, data, attachment_count and attachments in the same order.
C11_RoundTrip ==
    SentAndPolled => SamePacket(th[Sender].packet[1], th[Receiver].packet[1])
\* ---- C14, C15: the acceptor
HasUpgrade(req) ==
    \E i \in 1..Len(req.headers) : req.headers[i][1] = "Upgrade"

SidValues(req) ==
    {req.query[i][2] : i \in {j \in 1..Len(req.query) : req.query[j][1] = "sid"}}

\* What the decision table makes of a request, whatever the order of its
\* query parameters and header lines: the classification, and the sid values
\* it may carry.
TableKind(req) ==
    IF req.method \notin {"GET", "POST"} THEN "None"
    ELSE IF \E i \in 1..Len(req.query) :
                req.query[i][1] = "EIO" /\ req.query[i][2] # "4"
    THEN "None"
    ELSE IF HasUpgrade(req) /\ req.method = "GET" THEN "WsUpgrade"
    ELSE IF req.method = "POST" THEN "PollingPost"
    ELSE IF SidValues(req) # {} THEN "PollingGet"
    ELSE "PollingOpen"

TableSids(req) ==
    IF SidValues(req) = {} THEN {None} ELSE {Some(v) : v \in SidValues(req)}

\* C14: every complete request head is classified as the decision table
\* says, in whatever order its header lines and query parameters come:
\* neither GET nor POST is rejected, an EIO other than "4" is rejected, a GET
\* with an Upgrade header is WsUpgrade with the sid of the query if it has
\* one, a POST is PollingPost, a GET with a sid is PollingGet of that sid,
\* and anything else is PollingOpen.
C14_DecisionTable ==
    conn.pc # "listen" =>
        /\ conn.type.kind = TableKind(conn.req[1])
        /\ conn.type.kind \in {"WsUpgrade", "PollingGet"} =>
               conn.type.sid \in TableSids(conn.req[1])

\* C15: when the acceptor is done with a request classified PollingOpen,
\* PollingGet or PollingPost, it has written exactly one response, with
\* status 200: the Open frame with a handshake whose upgrades are
\* ["websocket"] for PollingOpen, the Upgrade frame "5" for PollingGet.
C15_PollingAnswered ==
    (conn.pc = "done"
     /\ conn.type.kind \in {"PollingOpen", "PollingGet", "PollingPost"}) =>
        /\ Len(conn.responses) = 1
        /\ conn.responses[1].status = 200
        /\ conn.type.kind = "PollingOpen" =>
               /\ conn.responses[1].packet_id = "0"
               /\ conn.responses[1].data # None
               /\ conn.responses[1].data[1].upgrades = <<"websocket">>
        /\ conn.type.kind = "PollingGet" =>
               /\ conn.responses[1].packet_id = "5"
               /\ conn.responses[1].data = None

\* ---- C16, C17: WebSocket connections
\* The connection was accepted as WsUpgrade(None) / as WsUpgrade(Some(sid)).
DirectRequest(s) == acc[s] # "idle" /\ requested[s] = NoSid
UpgradeRequest(s) == acc[s] # "idle" /\ requested[s] # NoSid

\* The session of the connection is an entry of the registry.
Registered(s) == \E x \in AllSids : sockets[x] = s

\* C16: on a direct WebSocket connection the first frame sent is the Open
\* frame, whose handshake has upgrades = [] and a Sid that generate has
\* returned to this connection alone; while store_stream has not returned
\* the session has got no Ping, and before the insert it is not in the
\* registry; and the registry holds it under the Sid of its Open frame only.
C16_OpenFirst ==
    \A s \in Sessions : DirectRequest(s) =>
        /\ wire[s] # <<>> /\ wire[s][1] = "Open"
        /\ opened[s] # None
        /\ opened[s][1].upgrades = <<>>
        /\ \E i \in 1..Len(generated) : generated[i] = opened[s][1].sid
        /\ \A t \in Sessions :
              (t # s /\ DirectRequest(t)) => opened[t] # opened[s]
        /\ acc[s] # "done" => ~Sent(wire[s], "Ping")
        /\ acc[s] \in {"store", "insert"} => ~Registered(s)
        /\ \A x \in AllSids : sockets[x] = s => x = opened[s][1].sid

\* C16: a directly connected session is registered and has got a Ping.
C16_OpenThenPing ==
    \E s \in Sessions :
        /\ DirectRequest(s) /\ Registered(s)
        /\ wire[s] = <<"Open", "Ping">>

\* C17: the step that accepts a WebSocket request with a sid leaves the Sid
\* generator as it was; the step of store_stream that inserts its session
\* puts it into the registry under the Sid of the request; and after every
\* step the session of such a request has the request's Sid, is in the
\* registry under no other Sid, and has been sent no Open frame.
C17_UpgradeKeepsSid ==
    [][\A s \in Sessions :
          /\ (acc[s] = "idle" /\ acc'[s] # "idle" /\ requested'[s] # NoSid) =>
                 /\ seq' = seq
                 /\ generated' = generated
          /\ (UpgradeRequest(s) /\ acc[s] = "insert" /\ acc'[s] = "done") =>
                 sockets'[requested[s]] = s
          /\ (acc'[s] # "idle" /\ requested'[s] # NoSid) =>
                 /\ sid'[s] = requested'[s]
                 /\ \A x \in AllSids : sockets'[x] = s => x = requested'[s]
                 /\ opened'[s] = None
                 /\ ~Sent(wire'[s], "Open")]_vars

\* C17: the session of a request with a sid is in the registry under that Sid
\* and has got a Ping as its first frame.
C17_UpgradedAndPinged ==
    \E s \in Sessions :
        /\ UpgradeRequest(s)
        /\ sockets[requested[s]] = s
        /\ wire[s] = <<"Ping">>

\* ---- C18: errors on the inbound side
\* C18: when the poll_packet task of a session has ended on a codec or
\* transport error, the error has been handed to on_error and the session
\* has been terminated: it is disconnected and on_close has been invoked
\* for it.
C18_InboundErrorTerminates ==
    \A s \in Sessions : pollt[s] = "failed" =>
        /\ errors[s] > 0
        /\ ~connected[s]
        /\ closes[s] > 0

\* ---- C19: the heartbeat driver and the registration
\* Socket of s is connected, so that a Ping emitted to it succeeds, and its
\* last pong is younger than ping_interval + ping_timeout.
Healthy(s) == connected[s] /\ Socket_emit_result(s) = "Ok" /\ elapsed[s] < timeout

\* C19: the heartbeat task of a session leaves its loop, and so calls
\* close_socket with the session's Sid, only when the session is not
\* healthy, whether or not store_stream has inserted the session yet.
C19_HealthyNotClosed ==
    [][\A s \in Sessions :
          (hb[s] \in {"check", "emit", "pong"} /\ hb'[s] = "close") =>
              ~Healthy(s)]_vars

\* ---- C20: sessions that leave the registry
\* The heartbeat tasks of the sessions store_stream has stored under Sid x
\* that are inside their loop: each has seen is_connected(x) return true and
\* goes on to ping the session that is in the registry under x.
Drivers(x) ==
    {s \in Sessions :
        sid[s] = x /\ acc[s] = "done" /\ hb[s] \in {"emit", "pong", "tick"}}

\* C20: a session that leaves the registry is closed and its heartbeat task
\* ends, so that at any time a session in the registry has at most one
\* heartbeat task in the loop on its Sid.
C20_OneDriver ==
    \A x \in AllSids : sockets[x] # 0 => Cardinality(Drivers(x)) <= 1

\* ---- C21: callbacks and the lock of the registry
\* C21: a caller that is inside the user's on_close, or in the wrapper's
\* drop_socket after it, holds the lock of the registry neither for writing
\* nor for reading, so that drop_socket does not wait for its own caller;
\* the lock is held for writing only between the remove of close_socket and
\* its drop, and for reading only inside Server::emit.
C21_CallbacksUnlocked ==
    \A c \in Callers :
        /\ call[c].pc \in {"disconnect", "on_close", "drop"} =>
               rw.writer # c /\ c \notin rw.readers
        /\ rw.writer = c => call[c].pc = "removed"
        /\ c \in rw.readers => call[c].pc \in {"emit", "emit_suspended"}

\* C21: one caller is inside on_close while another holds the write lock in
\* its own close_socket.
C21_ConcurrentCloses ==
    \E c, d \in Callers :
        /\ call[c].pc = "on_close"
        /\ call[d].pc = "removed" /\ call[d].sock # 0

\* ---- C22: the order of close and removal
\* C22: a session that a remove has taken out of the registry has been
\* closed before: it is disconnected and on_close has been invoked for it.
C22_RemovedAfterClose ==
    \A s \in removed : ~connected[s] /\ closes[s] > 0

\* ---- C27: the lock of the registry across a transport write
\* C27: a caller whose emit is suspended on the full transport of one
\* session holds no lock of the registry, so that store_stream, close_socket
\* and drop_socket of the other sessions get the write lock meanwhile.
C27_NoLockAcrossWrite ==
    \A c \in Callers : call[c].pc = "emit_suspended" => c \notin rw.readers

\* ---- C23: the frames of one send
\* The frame that precedes attachment number n of packet p on the way to the
\* Engine.IO client: the Message frame of p, or attachment n - 1.
Preceding(p, n) ==
    IF n = 1 THEN EnginePacket("Message", Packet_bytes(p))
    ELSE EnginePacket("MessageBinary", p.attachments[1][n - 1])

\* C23: whenever a send hands an attachment to the Engine.IO client, the
\* frame handed over last before it is the Message frame of the same packet
\* or the attachment before it in index order: the Message frame and the
\* MessageBinary frames of one send are consecutive, with no frame of
\* another thread's send between them.
C23_FramesConsecutive ==
    [][\A t \in Threads :
          (th[t].pc = "send_attachment" /\ th'[t] # th[t]
           /\ Len(outbox') = Len(outbox) + 1) =>
              /\ outbox # <<>>
              /\ outbox[Len(outbox)] = Preceding(th[t].packet[1], th[t].next)]_vars

\* The payloads of the Message and MessageBinary frames that arrived after
\* frame number from, up to frame number to.
CarriesData(f) == f.packet_id \in {"Message", "MessageBinary"}
DataFrames(from, to) ==
    LET taken == SelectSeq(SubSeq(arrived, from + 1, to), CarriesData)
    IN [k \in 1..Len(taken) |-> taken[k].data]

\* C24: the attachment frames of a BinaryEvent/BinaryAck go to the poll call
\* that read its header, whichever threads poll: while a call collects
\* attachments, every Message or MessageBinary frame taken since its header is
\* one of its attachments, and the packet it returns carries the payloads of
\* the frames that follow its header, in arrival order.
C24_AttachmentsOwned ==
    \A t \in Threads :
        /\ th[t].pc = "poll_attachments" =>
               th[t].attachments = DataFrames(th[t].start, rd)
        /\ (/\ th[t].pc = "ret" /\ th[t].op = "poll" /\ th[t].res = "Ok"
            /\ th[t].packet # None
            /\ th[t].packet[1].attachment_count > 0) =>
               th[t].packet[1].attachments[1] =
                   DataFrames(th[t].start, th[t].stop)

\* C25: every Sid that is a key of the registry was produced by the server's
\* Sid generator before; a Sid a client made up is never registered.
C25_RegisteredWereIssued ==
    \A x \in AllSids :
        sockets[x] # 0 => \E i \in 1..Len(generated) : generated[i] = x

\* C26: the classifier is total: whatever request peek_request_type has read,
\* parse_request_type returned a classification or a reject and did not
\* fault, also for a POST whose Content-Length exceeds the body bytes present.
C26_ClassifierTotal ==
    conn.req # None => conn.type # Panicked

====
